---------------------------- MODULE Spec2Model ----------------------------
(***************************************************************************)
(* Lead intake and lifecycle management: the create, update and list       *)
(* handlers (netlify/functions/leads-create.js, leads-update.js,           *)
(* leads-list.js) and their helpers (_utils.js), as state machines over    *)
(* the blob store.  Every await of a handler is one step; what runs        *)
(* between two awaits runs atomically, as in the JavaScript event loop.    *)
(***************************************************************************)
EXTENDS Integers, Sequences, FiniteSets, TLC

VARIABLES
    store,      \* the blob store: key (a string) -> [json, metadata]
    clock,      \* the wall clock, in milliseconds since the epoch
    env,        \* the deployment: which of process.env is set, and whether
                \* store operations may throw
    cr,         \* create requests: slot -> the handler's locals and position
    nCreates,   \* create requests started so far (also seeds the fresh uuid)
    hist,       \* per source key: the rate decisions taken, oldest first
    up,         \* update requests: slot -> the handler's locals and position
    nUpdates,   \* update requests started so far
    ls,         \* list requests: slot -> the handler's locals and position
    nLists      \* list requests started so far

createVars == <<cr, nCreates, hist>>
adminVars == <<up, nUpdates, ls, nLists>>
vars == <<store, clock, env, cr, nCreates, hist, up, nUpdates, ls, nLists>>

(***************************************************************************)
(* Bounds of the model.                                                    *)
(***************************************************************************)
\* Slots for create requests that may be in flight at the same time.
NCreateSlots == 2
\* Create requests started in one behaviour of SpecCreate.
MaxCreates == 1
\* Create requests started in one behaviour of SpecSeq.
MaxSeqCreates == 5
\* The clock advances in steps of TickMs, at most MaxTicks times.
TickMs == 300000
MaxTicks == 2
\* Slots for update requests that may be in flight at the same time, and
\* the update requests started in one behaviour.
NUpdateSlots == 2
MaxUpdates == 2
\* Slots for list requests, and the list requests started in one behaviour.
NListSlots == 1
MaxLists == 1
\* Leads created in one behaviour of the specifications of the admin surface.
MaxLeads == 1
MaxBurstCreates == 4
MaxSeeds == 3
MaxLimit == 2
MaxAuthUpdates == 1

(***************************************************************************)
(* Strings.  TLC evaluates Len, \o, Tail and SubSeq on strings; a          *)
(* character is a string of length one.                                    *)
(***************************************************************************)
Null == "<null>"

Digits == {"0", "1", "2", "3", "4", "5", "6", "7", "8", "9"}
Whitespace == {" ", "\t", "\n"}

CharAt(s, i) == SubSeq(s, i, i)

\* String.prototype.slice(0, n)
Slice0(s, n) == IF Len(s) > n THEN SubSeq(s, 1, n) ELSE s

RECURSIVE TrimStart(_)
TrimStart(s) ==
    IF s = "" THEN ""
    ELSE IF CharAt(s, 1) \in Whitespace THEN TrimStart(Tail(s)) ELSE s

RECURSIVE TrimEnd(_)
TrimEnd(s) ==
    IF s = "" THEN ""
    ELSE IF CharAt(s, Len(s)) \in Whitespace
         THEN TrimEnd(SubSeq(s, 1, Len(s) - 1)) ELSE s

\* String.prototype.trim()
Trim(s) == TrimEnd(TrimStart(s))

\* s.replace(/[^keep]/g, with): every character outside keep becomes with
RECURSIVE ReplaceOutside(_, _, _)
ReplaceOutside(s, keep, with) ==
    IF s = "" THEN ""
    ELSE (IF CharAt(s, 1) \in keep THEN CharAt(s, 1) ELSE with)
         \o ReplaceOutside(Tail(s), keep, with)

RECURSIVE AllIn(_, _)
AllIn(s, set) == s = "" \/ (CharAt(s, 1) \in set /\ AllIn(Tail(s), set))

StartsWith(s, p) == Len(s) >= Len(p) /\ SubSeq(s, 1, Len(p)) = p

Lowers == "abcdefghijklmnopqrstuvwxyz"
Uppers == "ABCDEFGHIJKLMNOPQRSTUVWXYZ"

LowerChar(c) ==
    IF \E i \in 1..26 : CharAt(Uppers, i) = c
    THEN CharAt(Lowers, CHOOSE i \in 1..26 : CharAt(Uppers, i) = c)
    ELSE c

\* String.prototype.toLowerCase(), on ASCII
RECURSIVE ToLowerCase(_)
ToLowerCase(s) ==
    IF s = "" THEN "" ELSE LowerChar(CharAt(s, 1)) \o ToLowerCase(Tail(s))

(***************************************************************************)
(* _utils.js: sanitizers                                                   *)
(***************************************************************************)
\* sanitizeString(v, maxLen); Null stands for null and undefined
sanitizeString(v, maxLen) ==
    IF v = Null THEN ""
    ELSE LET s == Trim(v) IN Slice0(s, maxLen)

\* normalizeInstagram(v)
normalizeInstagram(v) ==
    LET s == sanitizeString(v, 60)
        raw == IF StartsWith(s, "@") THEN Tail(s) ELSE s
    IN  IF raw # "" THEN "@" \o raw ELSE ""

\* normalizePhone(raw)
normalizePhone(raw) ==
    LET s == sanitizeString(raw, 50)
        RECURSIVE Keep(_, _)
        Keep(t, set) ==
            IF t = "" THEN ""
            ELSE (IF CharAt(t, 1) \in set THEN CharAt(t, 1) ELSE "")
                 \o Keep(Tail(t), set)
    IN  IF s = "" THEN ""
        ELSE IF StartsWith(s, "+")
        THEN LET digits == Keep(s, Digits \cup {"+"})
             IN  IF /\ Len(digits) >= 11 /\ Len(digits) <= 16
                    /\ AllIn(Tail(digits), Digits)
                 THEN digits ELSE ""
        ELSE LET digits == Keep(s, Digits)
             IN  IF Len(digits) = 10 THEN "+1" \o digits
                 ELSE IF Len(digits) = 11 /\ StartsWith(digits, "1")
                      THEN "+" \o digits
                      ELSE ""


(***************************************************************************)
(* Time.  The clock stays within the first hour of the epoch, where        *)
(* Date.prototype.toISOString() is "1970-01-01T00:MM:SS.mmmZ".             *)
(***************************************************************************)
Pad2(n) == IF n < 10 THEN "0" \o ToString(n) ELSE ToString(n)
Pad3(n) == IF n < 10 THEN "00" \o ToString(n)
           ELSE IF n < 100 THEN "0" \o ToString(n) ELSE ToString(n)

toISOString(ms) ==
    "1970-01-01T00:" \o Pad2(ms \div 60000) \o ":" \o Pad2((ms % 60000) \div 1000)
        \o "." \o Pad3(ms % 1000) \o "Z"

DigitVal(c) == CHOOSE d \in 0..9 : ToString(d) = c

RECURSIVE ParseDigits(_)
ParseDigits(s) ==
    IF s = "" THEN 0
    ELSE 10 * ParseDigits(SubSeq(s, 1, Len(s) - 1)) + DigitVal(CharAt(s, Len(s)))

\* Date.parse(iso), on the strings toISOString produces
DateParse(iso) ==
    ParseDigits(SubSeq(iso, 15, 16)) * 60000 + ParseDigits(SubSeq(iso, 18, 19)) * 1000
        + ParseDigits(SubSeq(iso, 21, 23))

(***************************************************************************)
(* _utils.js: keys, client address, payload guard                          *)
(***************************************************************************)
HexDigit(n) == CharAt("0123456789abcdef", (n % 16) + 1)

\* crypto.randomUUID(): a fresh value each call; n numbers the calls
randomUUID(n) == "00000000-0000-4000-8000-0000000000" \o HexDigit(n \div 16) \o HexDigit(n)

\* newLeadKey(now)
newLeadKey(now, n) == "leads/" \o toISOString(now) \o "_" \o randomUUID(n)

RECURSIVE BeforeComma(_)
BeforeComma(s) ==
    IF s = "" \/ CharAt(s, 1) = "," THEN "" ELSE CharAt(s, 1) \o BeforeComma(Tail(s))

\* getClientIp(req, context): context.ip, else the forwarding headers
getClientIp(ctxIp, fwd) ==
    LET ip == IF ctxIp # "" THEN ctxIp ELSE fwd
    IN  Trim(BeforeComma(ip))

BlobSafe == Digits \cup {"a", "b", "c", "d", "e", "f", ".", "_", "-"}

\* rateKeyForIp(ip)
rateKeyForIp(ip) ==
    LET s == sanitizeString(ip, 80)
    IN  IF s = "" THEN "" ELSE "rate/" \o ReplaceOutside(s, BlobSafe, "_")

MAX_BYTES == 10000

\* isPayloadTooLarge(req, maxBytes); contentLength 0 stands for no header
isPayloadTooLarge(contentLength, maxBytes) ==
    contentLength # 0 /\ contentLength > maxBytes

(***************************************************************************)
(* The blob store (@netlify/blobs, strong consistency): point reads and    *)
(* writes of one key are atomic.                                           *)
(***************************************************************************)
NoMetadata == [status |-> "", archived |-> ""]

\* store.get(key, {type: "json"}): the blob, or null
StoreHas(key) == key \in DOMAIN store

\* store.setJSON(key, value, {metadata})
StorePut(key, value, md) ==
    [k \in DOMAIN store \cup {key} |->
        IF k = key THEN [json |-> value, metadata |-> md] ELSE store[k]]

(***************************************************************************)
(* leads-create.js                                                         *)
(***************************************************************************)
WINDOW_MS == 10 * 60 * 1000
MAX_REQ == 3
DM_CAP == 550
\* fallbackDm: the length of the template around the first name
FALLBACK_FIXED_LEN == 254

\* The request bodies the model submits.  json = "invalid" is a body that
\* does not parse; chars is the length of JSON.stringify(body).
BodyOf(json, hp, name, phone, instagram, service, chars) ==
    [json |-> json, hp |-> hp, name |-> name, phone |-> phone,
     instagram |-> instagram, service |-> service, chars |-> chars]

Bodies == {
    BodyOf("invalid", Null, Null, Null, Null, Null, 0),
    BodyOf("object", "x", "Jess", "4355551234", Null, Null, 60),
    BodyOf("object", Null, "  ", "4355551234", Null, Null, 40),
    BodyOf("object", Null, "Jess", "555-1234", " @ ", Null, 50),
    BodyOf("object", Null, "Jess", "(435) 555-1234", Null, "fill", 70),
    BodyOf("object", " ", " Ann ", Null, "ann.nails", Null, 50),
    BodyOf("object", Null, "Jess", "+14355551234", Null, Null, MAX_BYTES + 1) }

\* A create request as it arrives: method, Content-Length (0: no header),
\* body, context.ip and the forwarding header.
CreateInputs ==
    { [method |-> "POST", contentLength |-> 0, body |-> b, ctxIp |-> a[1], fwd |-> a[2]] :
        b \in Bodies, a \in {<<"", "">>, <<"1.2.3.4", "">>} }
    \cup
    { [method |-> m[1], contentLength |-> m[2],
       body |-> BodyOf("object", Null, "Jess", "4355551234", Null, Null, 60),
       ctxIp |-> "1.2.3.4", fwd |-> ""] :
        m \in {<<"OPTIONS", 0>>, <<"GET", 0>>, <<"POST", MAX_BYTES>>, <<"POST", MAX_BYTES + 1>>} }

\* validatePayload without the contact check of line 30.
validatePayloadNameOnly(body) ==
    IF body.json # "object" THEN [ok |-> FALSE, error |-> "Invalid JSON body"]
    ELSE LET name == sanitizeString(body.name, 80)
             phone == normalizePhone(body.phone)
             instagram == normalizeInstagram(body.instagram)
         IN  IF name = "" THEN [ok |-> FALSE, error |-> "Missing name"]
             ELSE [ok |-> TRUE,
                   lead |-> [name |-> name, phone |-> phone, instagram |-> instagram,
                             service |-> sanitizeString(body.service, 100),
                             availability |-> "", notes |-> "",
                             contact_preference |-> "", budget |-> "",
                             length |-> "", style |-> ""]]

\* validatePayload(body)
validatePayload(body) ==
    IF body.json # "object" THEN [ok |-> FALSE, error |-> "Invalid JSON body"]
    ELSE LET name == sanitizeString(body.name, 80)
             phone == normalizePhone(body.phone)
             instagram == normalizeInstagram(body.instagram)
         IN  IF name = "" THEN [ok |-> FALSE, error |-> "Missing name"]
             ELSE IF phone = "" /\ instagram = ""
             THEN [ok |-> FALSE, error |-> "Provide phone or instagram"]
             ELSE [ok |-> TRUE,
                   lead |-> [name |-> name, phone |-> phone, instagram |-> instagram,
                             service |-> sanitizeString(body.service, 100),
                             availability |-> "", notes |-> "",
                             contact_preference |-> "", budget |-> "",
                             length |-> "", style |-> ""]]

\* A message text is modelled by where it came from and its length.
NoDm == [from |-> "", len |-> 0]

\* fallbackDm(name)
fallbackDm(name) ==
    LET s == sanitizeString(name, 40)
        first == IF s # "" THEN s ELSE "there"
    IN  [from |-> "fallback", len |-> FALLBACK_FIXED_LEN + Len(first)]

\* generateSuggestedDm, after the service answered with a text of trimmed
\* length n: text.length > 550 ? text.slice(0, 550) : text
CapDm(n) == [from |-> "service", len |-> IF n > DM_CAP THEN DM_CAP ELSE n]

\* The trimmed lengths of the texts the generation service may answer with.
GenLens == {0, 120, DM_CAP + 1}

\* The record the handler builds (leadRecord), before suggested_dm is set.
\* contacted_at and closed_at are not in it: Null stands for the absent field.
NewLeadRecord(key, now, lead, ctxIp) ==
    [id |-> key,
     created_at |-> toISOString(now),
     updated_at |-> toISOString(now),
     status |-> "new",
     archived |-> FALSE,
     lead |-> lead,
     suggested_dm |-> NoDm,
     internal_notes |-> "",
     tags |-> <<>>,
     meta |-> [referrer |-> "", user_agent |-> "", ip |-> ctxIp],
     booking |-> [constraint |-> "Paul Mitchell clinic only", location |-> "Logan, UT"],
     contacted_at |-> Null,
     closed_at |-> Null]

\* InWindow with the window closed at its end: <= for <.
InWindowInclusive(windowStartMs, nowMs) ==
    windowStartMs # 0 /\ (nowMs - windowStartMs) <= WINDOW_MS

\* The rate window: inWindow = windowStartMs && (nowMs - windowStartMs) < WINDOW_MS
InWindow(windowStartMs, nowMs) ==
    windowStartMs # 0 /\ (nowMs - windowStartMs) < WINDOW_MS

\* windowStartMs = prev?.window_start_at ? Date.parse(prev.window_start_at) : 0
\* (prev is <<>> when store.get answered null, <<record>> otherwise)
WindowStartMs(prev) ==
    IF prev # <<>> /\ prev[1].window_start_at # "" THEN DateParse(prev[1].window_start_at) ELSE 0

\* count = Number(prev?.count || 0), reset to 0 outside the window
PrevCount(prev, inWindow) == IF prev # <<>> /\ inWindow THEN prev[1].count ELSE 0

\* RateRejects that never rejects: line 179 without the return.
RateNeverRejects(prev, nowMs) == FALSE

\* inWindow && count >= MAX_REQ
RateRejects(prev, nowMs) ==
    LET inWindow == InWindow(WindowStartMs(prev), nowMs)
    IN  inWindow /\ PrevCount(prev, inWindow) >= MAX_REQ

\* NextWindow that does not count: line 184 storing 1 whatever was read.
NextWindowCountOne(prev, nowMs) ==
    LET windowStartMs == WindowStartMs(prev)
        inWindow == InWindow(windowStartMs, nowMs)
    IN  [window_start_at |-> IF inWindow THEN toISOString(windowStartMs) ELSE toISOString(nowMs),
         count |-> 1,
         last_submit_at |-> toISOString(nowMs)]

\* NextWindow that never opens a new window: line 183 keeping the start
\* that was read whenever there is one.
NextWindowNeverResets(prev, nowMs) ==
    LET windowStartMs == WindowStartMs(prev)
        inWindow == InWindow(windowStartMs, nowMs)
    IN  [window_start_at |-> IF windowStartMs # 0 THEN toISOString(windowStartMs)
                             ELSE toISOString(nowMs),
         count |-> IF inWindow THEN PrevCount(prev, inWindow) + 1 ELSE 1,
         last_submit_at |-> toISOString(nowMs)]

\* next = { window_start_at, count, last_submit_at }
NextWindow(prev, nowMs) ==
    LET windowStartMs == WindowStartMs(prev)
        inWindow == InWindow(windowStartMs, nowMs)
    IN  [window_start_at |-> IF inWindow THEN toISOString(windowStartMs) ELSE toISOString(nowMs),
         count |-> IF inWindow THEN PrevCount(prev, inWindow) + 1 ELSE 1,
         last_submit_at |-> toISOString(nowMs)]

(***************************************************************************)
(* The create handler, one action per await.                               *)
(***************************************************************************)
CreateSlots == 1..NCreateSlots

NoLead == [name |-> "", phone |-> "", instagram |-> "", service |-> "",
           availability |-> "", notes |-> "", contact_preference |-> "",
           budget |-> "", length |-> "", style |-> ""]

NoInput == [method |-> "", contentLength |-> 0,
            body |-> BodyOf("invalid", Null, Null, Null, Null, Null, 0),
            ctxIp |-> "", fwd |-> ""]

\* A slot with no request in it.  pc is the await the handler stands at.
\* The other fields after error record what the request did: the calls to
\* the generation service and to the gateway and how each ended, the store
\* operations on the rate key, and how the write of the lead ended.
IdleCr ==
    [pc |-> "idle", req |-> NoInput, uid |-> 0, now |-> 0, rk |-> "",
     lead |-> NoLead, key |-> "", next |-> <<>>, dm |-> NoDm,
     resp |-> 0, error |-> "",
     genCalls |-> 0, genResult |-> "none", smsCalls |-> 0, smsResult |-> "none",
     rateOps |-> 0, rateFault |-> FALSE, leadWrite |-> "none"]

\* json(status, {ok, error})
Respond(c, status, error) == [c EXCEPT !.pc = "done", !.resp = status, !.error = error]

\* JSON.stringify(body || "").length
ApproxLen(body) == IF body.json = "object" THEN body.chars ELSE 2

\* BeginGeneration without the await: the service is called and the handler
\* goes on to the write with the fallback text.
BeginGenerationDetached(c) ==
    LET c1 == [c EXCEPT !.key = newLeadKey(c.now, c.uid), !.pc = "store",
                        !.dm = fallbackDm(c.lead.name)]
    IN  IF env.openaiKey
        THEN [c1 EXCEPT !.genCalls = @ + 1, !.genResult = "pending"]
        ELSE [c1 EXCEPT !.genResult = "nokey"]

\* Lines 194-223 up to the await of the generation service: the key, the
\* record, and generateSuggestedDm, which throws before calling the service
\* when OPENAI_API_KEY is missing (the handler then takes the fallback).
BeginGeneration(c) ==
    LET c1 == [c EXCEPT !.key = newLeadKey(c.now, c.uid)]
    IN  IF env.openaiKey
        THEN [c1 EXCEPT !.pc = "gen", !.genCalls = @ + 1, !.genResult = "pending"]
        ELSE [c1 EXCEPT !.pc = "store", !.genResult = "nokey",
                        !.dm = fallbackDm(c.lead.name)]

\* Lines 230-243 up to the await of the gateway: sendSmsToAshlee returns
\* without calling the gateway when the Twilio variables are missing.
BeginSms(c) ==
    IF env.twilio
    THEN [c EXCEPT !.pc = "sms", !.smsCalls = @ + 1, !.smsResult = "pending"]
    ELSE Respond([c EXCEPT !.smsResult = "unconfigured"], 200, "")

\* Receive without the honeypot check of lines 145-148.
ReceiveIgnoresHoneypot(c, now) ==
    LET req == c.req
        body == req.body
        validated == validatePayload(body)
    IN  IF req.method = "OPTIONS" THEN Respond(c, 204, "")
        ELSE IF req.method # "POST" THEN Respond(c, 405, "Method not allowed")
        ELSE IF isPayloadTooLarge(req.contentLength, MAX_BYTES)
        THEN Respond(c, 413, "Payload too large")
        ELSE IF ApproxLen(body) > MAX_BYTES THEN Respond(c, 413, "Payload too large")
        ELSE IF ~validated.ok THEN Respond(c, 400, validated.error)
        ELSE LET ip == getClientIp(req.ctxIp, req.fwd)
                 rk == IF ip # "" THEN rateKeyForIp(ip) ELSE ""
                 c1 == [c EXCEPT !.now = now, !.lead = validated.lead, !.rk = rk]
             IN  IF rk # "" THEN [c1 EXCEPT !.pc = "rl_get"] ELSE BeginGeneration(c1)

\* Lines 133-167: everything before the first store access.
Receive(c, now) ==
    LET req == c.req
        body == req.body
        validated == validatePayload(body)
    IN  IF req.method = "OPTIONS" THEN Respond(c, 204, "")
        ELSE IF req.method # "POST" THEN Respond(c, 405, "Method not allowed")
        ELSE IF isPayloadTooLarge(req.contentLength, MAX_BYTES)
        THEN Respond(c, 413, "Payload too large")
        ELSE IF body.json = "object" /\ sanitizeString(body.hp, 200) # ""
        THEN Respond(c, 400, "Spam detected")
        ELSE IF ApproxLen(body) > MAX_BYTES THEN Respond(c, 413, "Payload too large")
        ELSE IF ~validated.ok THEN Respond(c, 400, validated.error)
        ELSE LET ip == getClientIp(req.ctxIp, req.fwd)
                 rk == IF ip # "" THEN rateKeyForIp(ip) ELSE ""
                 c1 == [c EXCEPT !.now = now, !.lead = validated.lead, !.rk = rk]
             IN  IF rk # "" THEN [c1 EXCEPT !.pc = "rl_get"] ELSE BeginGeneration(c1)

\* What hist keeps of a request: its time (now), whether the rate block let
\* it through, whether a rate-state operation threw, and the window record
\* it wrote (<<>>: none).
HistEntry(c, admitted, fault) ==
    [t |-> c.now, admitted |-> admitted, fault |-> fault,
     wrote |-> IF admitted /\ ~fault THEN c.next ELSE <<>>]

\* A request arrives and runs to its first await (or to its response).
Arrive(r, inputs, max) ==
    /\ cr[r].pc \in {"idle", "done"}
    /\ nCreates < max
    /\ \E inp \in inputs :
         cr' = [cr EXCEPT ![r] = Receive([IdleCr EXCEPT !.req = inp, !.uid = nCreates], clock)]
    /\ nCreates' = nCreates + 1
    /\ UNCHANGED <<store, clock, env, hist, up, nUpdates, ls, nLists>>

CreateStart(r) == Arrive(r, CreateInputs, MaxCreates)

\* Valid submissions from two sources, one of them behind a proxy chain.
SeqInputs ==
    { [method |-> "POST", contentLength |-> 0,
       body |-> BodyOf("object", Null, "Jess", "4355551234", Null, "fill", 70),
       ctxIp |-> a[1], fwd |-> a[2]] :
        a \in {<<"1.2.3.4", "">>, <<"", "::1, 9.9.9.9">>} }

SeqStart == Arrive(1, SeqInputs, MaxSeqCreates)

\* await store.get(rk) ends, then lines 172-187 up to store.setJSON(rk, next).
\* A read that throws is caught (line 188) and the request goes on.
RateGet(r) ==
    LET c == cr[r]
        c1 == [c EXCEPT !.rateOps = @ + 1]
    IN  /\ c.pc = "rl_get"
        /\ \/ /\ env.storeMayFail
              /\ cr' = [cr EXCEPT ![r] = BeginGeneration([c1 EXCEPT !.rateFault = TRUE])]
              /\ hist' = [hist EXCEPT ![c.rk] = Append(@, HistEntry(c, TRUE, TRUE))]
           \/ LET prev == IF StoreHas(c.rk) THEN <<store[c.rk].json>> ELSE <<>>
              IN  IF RateRejects(prev, c.now)
                  THEN /\ cr' = [cr EXCEPT ![r] = Respond(c1, 429, "Too many requests")]
                       /\ hist' = [hist EXCEPT ![c.rk] = Append(@, HistEntry(c, FALSE, FALSE))]
                  ELSE /\ cr' = [cr EXCEPT ![r] =
                                    [c1 EXCEPT !.pc = "rl_set", !.next = <<NextWindow(prev, c.now)>>]]
                       /\ hist' = hist
        /\ UNCHANGED <<store, clock, env, nCreates, up, nUpdates, ls, nLists>>

\* await store.setJSON(rk, next) ends; a write that throws is caught too.
RateSet(r) ==
    LET c == cr[r]
        c1 == [c EXCEPT !.rateOps = @ + 1]
    IN  /\ c.pc = "rl_set"
        /\ \/ /\ store' = StorePut(c.rk, c.next[1], NoMetadata)
              /\ cr' = [cr EXCEPT ![r] = BeginGeneration(c1)]
              /\ hist' = [hist EXCEPT ![c.rk] = Append(@, HistEntry(c, TRUE, FALSE))]
           \/ /\ env.storeMayFail
              /\ store' = store
              /\ cr' = [cr EXCEPT ![r] = BeginGeneration([c1 EXCEPT !.rateFault = TRUE])]
              /\ hist' = [hist EXCEPT ![c.rk] = Append(@, HistEntry(c, TRUE, TRUE))]
        /\ UNCHANGED <<clock, env, nCreates, up, nUpdates, ls, nLists>>

\* GenReturn with one retry of a call that threw.
GenReturnRetries(r) ==
    LET c == cr[r]
    IN  /\ c.pc = "gen"
        /\ \/ /\ c.genCalls < 2
              /\ cr' = [cr EXCEPT ![r] = [c EXCEPT !.genCalls = @ + 1]]
           \/ \E n \in GenLens :
                cr' = [cr EXCEPT ![r] =
                         [c EXCEPT !.pc = "store",
                                   !.genResult = IF n = 0 THEN "empty" ELSE "text",
                                   !.dm = IF CapDm(n).len = 0 THEN fallbackDm(c.lead.name)
                                          ELSE CapDm(n)]]
        /\ UNCHANGED <<store, clock, env, nCreates, hist, up, nUpdates, ls, nLists>>

\* await openai.responses.create(...) ends: it throws, or answers a text.
\* An empty text and a throw both lead to fallbackDm (lines 219-223).
GenReturn(r) ==
    LET c == cr[r]
    IN  /\ c.pc = "gen"
        /\ \/ cr' = [cr EXCEPT ![r] = [c EXCEPT !.pc = "store", !.genResult = "threw",
                                                  !.dm = fallbackDm(c.lead.name)]]
           \/ \E n \in GenLens :
                cr' = [cr EXCEPT ![r] =
                         [c EXCEPT !.pc = "store",
                                   !.genResult = IF n = 0 THEN "empty" ELSE "text",
                                   !.dm = IF CapDm(n).len = 0 THEN fallbackDm(c.lead.name)
                                          ELSE CapDm(n)]]
        /\ UNCHANGED <<store, clock, env, nCreates, hist, up, nUpdates, ls, nLists>>

\* LeadWrite with the write in a try/catch like the other store operations.
LeadWriteSwallows(r) ==
    LET c == cr[r]
        leadRecord == [NewLeadRecord(c.key, c.now, c.lead, c.req.ctxIp) EXCEPT !.suggested_dm = c.dm]
    IN  /\ c.pc = "store"
        /\ \/ /\ store' = StorePut(c.key, leadRecord, [status |-> leadRecord.status, archived |-> "false"])
              /\ cr' = [cr EXCEPT ![r] = BeginSms([c EXCEPT !.leadWrite = "ok"])]
           \/ /\ env.storeMayFail
              /\ store' = store
              /\ cr' = [cr EXCEPT ![r] = BeginSms([c EXCEPT !.leadWrite = "failed"])]
        /\ UNCHANGED <<clock, env, nCreates, hist, up, nUpdates, ls, nLists>>

\* await store.setJSON(key, leadRecord, {metadata}) ends.  A write that
\* throws is not caught: the handler ends without a response of its own
\* and the platform answers 500.
LeadWrite(r) ==
    LET c == cr[r]
        leadRecord == [NewLeadRecord(c.key, c.now, c.lead, c.req.ctxIp) EXCEPT !.suggested_dm = c.dm]
    IN  /\ c.pc = "store"
        /\ \/ /\ store' = StorePut(c.key, leadRecord, [status |-> leadRecord.status, archived |-> "false"])
              /\ cr' = [cr EXCEPT ![r] = BeginSms([c EXCEPT !.leadWrite = "ok"])]
           \/ /\ env.storeMayFail
              /\ store' = store
              /\ cr' = [cr EXCEPT ![r] = Respond([c EXCEPT !.leadWrite = "failed"], 500, "")]
        /\ UNCHANGED <<clock, env, nCreates, hist, up, nUpdates, ls, nLists>>

\* SmsReturn without the try/catch around the dispatch.
SmsReturnPropagates(r) ==
    LET c == cr[r]
    IN  /\ c.pc = "sms"
        /\ \/ cr' = [cr EXCEPT ![r] = Respond([c EXCEPT !.smsResult = "sent"], 200, "")]
           \/ cr' = [cr EXCEPT ![r] = Respond([c EXCEPT !.smsResult = "threw"], 500, "")]
        /\ UNCHANGED <<store, clock, env, nCreates, hist, up, nUpdates, ls, nLists>>

\* await client.messages.create(...) ends: sent, or it throws and the
\* handler swallows it (line 239).
SmsReturn(r) ==
    LET c == cr[r]
    IN  /\ c.pc = "sms"
        /\ \E how \in {"sent", "threw"} :
             cr' = [cr EXCEPT ![r] = Respond([c EXCEPT !.smsResult = how], 200, "")]
        /\ UNCHANGED <<store, clock, env, nCreates, hist, up, nUpdates, ls, nLists>>

\* Time passes.
Tick ==
    /\ clock < (MaxTicks + 1) * TickMs
    /\ clock' = clock + TickMs
    /\ UNCHANGED <<store, env, cr, nCreates, hist, up, nUpdates, ls, nLists>>

(***************************************************************************)
(* _utils.js: the authorization gate and the key pattern                   *)
(***************************************************************************)
RECURSIVE SplitComma(_)
\* String.prototype.split(",")
SplitComma(s) ==
    LET head == BeforeComma(s)
    IN  IF Len(head) = Len(s) THEN <<head>>
        ELSE <<head>> \o SplitComma(SubSeq(s, Len(head) + 2, Len(s)))

SeqToSet(q) == {q[i] : i \in 1..Len(q)}

\* A request's identity: context.clientContext.user, with its roles
\* (app_metadata.roles || user_metadata.roles || []).
NoUser == [present |-> FALSE, email |-> "", roles |-> <<>>]
UserOf(email, roles) == [present |-> TRUE, email |-> email, roles |-> roles]

Verdict(ok, status, error) == [ok |-> ok, status |-> status, error |-> error]

\* requireJwt(req, context)
requireJwt(auth, user) ==
    IF ~StartsWith(ToLowerCase(auth), "bearer ") THEN Verdict(FALSE, 401, "Unauthorized")
    ELSE IF ~user.present THEN Verdict(FALSE, 401, "Unauthorized")
    ELSE Verdict(TRUE, 200, "")

\* (process.env.ADMIN_EMAILS || "").split(",").map(trim, lower).filter(Boolean)
AllowList ==
    LET parts == SplitComma(env.adminEmails)
    IN  {ToLowerCase(Trim(parts[i])) : i \in 1..Len(parts)} \ {""}

\* requireAdmin with an empty allowlist letting every identity in.
requireAdminOpenByDefault(user) ==
    IF ~user.present THEN Verdict(FALSE, 401, "Unauthorized")
    ELSE LET email == ToLowerCase(user.email)
             requiredRole == Trim(env.adminRole)
             emailAllowed == IF AllowList # {} THEN email \in AllowList ELSE TRUE
             roleAllowed == IF requiredRole # "" THEN requiredRole \in SeqToSet(user.roles) ELSE FALSE
         IN  IF ~emailAllowed /\ ~roleAllowed THEN Verdict(FALSE, 403, "Forbidden")
             ELSE Verdict(TRUE, 200, "")

\* requireAdmin(context)
requireAdmin(user) ==
    IF ~user.present THEN Verdict(FALSE, 401, "Unauthorized")
    ELSE LET email == ToLowerCase(user.email)
             requiredRole == Trim(env.adminRole)
             emailAllowed == IF AllowList # {} THEN email \in AllowList ELSE FALSE
             roleAllowed == IF requiredRole # "" THEN requiredRole \in SeqToSet(user.roles) ELSE FALSE
         IN  IF ~emailAllowed /\ ~roleAllowed THEN Verdict(FALSE, 403, "Forbidden")
             ELSE Verdict(TRUE, 200, "")

HexChars == Digits \cup {"a", "b", "c", "d", "e", "f", "A", "B", "C", "D", "E", "F", "-"}

\* s matches tpl, where a "#" of tpl stands for any digit and every other
\* character for itself
RECURSIVE MatchesTemplate(_, _)
MatchesTemplate(s, tpl) ==
    IF tpl = "" THEN s = ""
    ELSE /\ s # ""
         /\ IF CharAt(tpl, 1) = "#" THEN CharAt(s, 1) \in Digits
            ELSE CharAt(s, 1) = CharAt(tpl, 1)
         /\ MatchesTemplate(Tail(s), Tail(tpl))

\* LEAD_KEY_RE: /^leads\/\d{4}-\d{2}-\d{2}T\d{2}:\d{2}:\d{2}\.\d{3}Z_[0-9a-fA-F-]{36}$/
LEAD_KEY_RE(key) ==
    /\ Len(key) = 67
    /\ MatchesTemplate(SubSeq(key, 1, 31), "leads/####-##-##T##:##:##.###Z_")
    /\ AllIn(SubSeq(key, 32, 67), HexChars)

\* assertLeadKey(key) without the pattern: any string is let through
assertLeadKeyAnyString(key) == key # Null

\* assertLeadKey(key); Null stands for a value that is not a string
assertLeadKey(key) == key # Null /\ Len(key) < 220 /\ LEAD_KEY_RE(key)

(***************************************************************************)
(* leads-update.js                                                         *)
(***************************************************************************)
VALID_STATUSES == {"new", "contacted", "booked", "closed", "noshow"}
NOTES_CAP == 2000
TAG_LEN == 40
TAG_CAP == 25

\* normalizeStatus(raw)
normalizeStatus(raw) == ToLowerCase(sanitizeString(raw, 30))

\* VALID_STATUSES.has(s), with every value let through
ValidStatusAny(s) == TRUE

\* VALID_STATUSES.has(s)
ValidStatus(s) == s \in VALID_STATUSES

\* A patch: status and internal_notes are strings or Null (absent), tags is
\* absent, an array of strings or something that is no array, archived is
\* <<>> (absent) or <<b>> with b the truth value of what was sent.
PatchOf(status, notes, tags, archived) ==
    [status |-> status, internal_notes |-> notes, tags |-> tags, archived |-> archived]

NoTags == [present |-> FALSE, isArray |-> FALSE, items |-> <<>>]
TagsOf(items) == [present |-> TRUE, isArray |-> TRUE, items |-> items]

NoPatch == PatchOf(Null, Null, NoTags, <<>>)

\* tags.map((t) => sanitizeString(t, 40)).filter(Boolean).slice(0, 25)
RECURSIVE CleanTags(_)
CleanTags(items) ==
    IF items = <<>> THEN <<>>
    ELSE LET t == sanitizeString(Head(items), TAG_LEN)
         IN  (IF t # "" THEN <<t>> ELSE <<>>) \o CleanTags(Tail(items))

Take(q, n) == IF Len(q) > n THEN SubSeq(q, 1, n) ELSE q

\* applyPatch as a merge, out = {...existing, ...patch}: every field the
\* patch carries is copied into the record.
PatchedAssign(existing, patch, nowIso, s) ==
    [f \in DOMAIN existing |->
        IF f = "updated_at" THEN nowIso
        ELSE IF f = "status" THEN (IF patch.status # Null THEN s ELSE existing.status)
        ELSE IF f \in DOMAIN patch \ {"internal_notes", "tags", "archived"} THEN patch[f]
        ELSE existing[f]]

\* applyPatch without the lifecycle stamps of lines 127-133.
PatchedWithoutStamps(existing, patch, nowIso, s) ==
    LET o1 == IF patch.status # Null THEN [existing EXCEPT !.status = s] ELSE existing
        o2 == IF patch.internal_notes # Null
              THEN [o1 EXCEPT !.internal_notes = sanitizeString(patch.internal_notes, NOTES_CAP)]
              ELSE o1
        o3 == IF patch.tags.present
              THEN [o2 EXCEPT !.tags = Take(CleanTags(IF patch.tags.isArray THEN patch.tags.items
                                                        ELSE <<>>), TAG_CAP)]
              ELSE o2
        o4 == IF patch.archived # <<>> THEN [o3 EXCEPT !.archived = patch.archived[1]] ELSE o3
    IN  [o4 EXCEPT !.updated_at = nowIso]

\* The body of applyPatch after the status check, s being the status it
\* stores when the patch carries one.
Patched(existing, patch, nowIso, s) ==
    LET o1 == IF patch.status # Null THEN [existing EXCEPT !.status = s] ELSE existing
        o2 == IF patch.internal_notes # Null
              THEN [o1 EXCEPT !.internal_notes = sanitizeString(patch.internal_notes, NOTES_CAP)]
              ELSE o1
        o3 == IF patch.tags.present
              THEN [o2 EXCEPT !.tags = Take(CleanTags(IF patch.tags.isArray THEN patch.tags.items
                                                        ELSE <<>>), TAG_CAP)]
              ELSE o2
        o4 == IF patch.archived # <<>> THEN [o3 EXCEPT !.archived = patch.archived[1]] ELSE o3
        o5 == [o4 EXCEPT !.updated_at = nowIso]
        changed == existing.status # o5.status
        o6 == IF changed /\ o5.status = "contacted" /\ o5.contacted_at \in {Null, ""}
              THEN [o5 EXCEPT !.contacted_at = nowIso] ELSE o5
        o7 == IF changed /\ o6.status \in {"closed", "booked"} /\ o6.closed_at \in {Null, ""}
              THEN [o6 EXCEPT !.closed_at = nowIso] ELSE o6
    IN  o7

\* applyPatch with the status stored as it was sent: out.status = patch.status
applyPatchRawStatus(existing, patch, nowIso) ==
    IF patch.status # Null /\ ~ValidStatus(normalizeStatus(patch.status))
    THEN [ok |-> FALSE, out |-> existing]
    ELSE [ok |-> TRUE, out |-> Patched(existing, patch, nowIso, patch.status)]

\* applyPatch(existing, patchRaw), nowIso being new Date().toISOString();
\* ok = FALSE stands for the throw of "Invalid status"
applyPatch(existing, patch, nowIso) ==
    IF patch.status # Null /\ ~ValidStatus(normalizeStatus(patch.status))
    THEN [ok |-> FALSE, out |-> existing]
    ELSE [ok |-> TRUE, out |-> Patched(existing, patch, nowIso, normalizeStatus(patch.status))]

\* An update request as it arrives: method, Authorization header, identity,
\* and the body (json = "invalid": it does not parse; hasPatch: body.patch
\* is an object).
UpdateBody(json, id, hasPatch, patch) ==
    [json |-> json, id |-> id, hasPatch |-> hasPatch, patch |-> patch]

UpdateReq(method, auth, user, body) ==
    [method |-> method, auth |-> auth, user |-> user, body |-> body]

\* coercePatch(body)
coercePatch(body) == IF body.json = "object" /\ body.hasPatch THEN body.patch ELSE NoPatch

UpdateSlots == 1..NUpdateSlots

\* A slot with no request in it.  existing and updated are the handler's
\* locals; reads and writes count the store operations it issued.
IdleUp ==
    [pc |-> "idle", req |-> UpdateReq("", "", NoUser, UpdateBody("invalid", Null, FALSE, NoPatch)),
     updated |-> <<>>, resp |-> 0, error |-> "", reads |-> 0, writes |-> 0]

UpRespond(c, status, error) == [c EXCEPT !.pc = "done", !.resp = status, !.error = error]

\* Lines 139-174: everything up to the store.get(id) the handler awaits.
UpdateReceive(c) ==
    LET req == c.req
        body == req.body
        jwt == requireJwt(req.auth, req.user)
        admin == requireAdmin(req.user)
        patch == coercePatch(body)
    IN  IF req.method = "OPTIONS" THEN UpRespond(c, 204, "")
        ELSE IF req.method \notin {"POST", "PATCH"} THEN UpRespond(c, 405, "Method not allowed")
        ELSE IF ~jwt.ok THEN UpRespond(c, jwt.status, jwt.error)
        ELSE IF ~admin.ok THEN UpRespond(c, admin.status, admin.error)
        ELSE IF body.json # "object" THEN UpRespond(c, 400, "Invalid JSON body")
        ELSE IF ~assertLeadKey(body.id) THEN UpRespond(c, 400, "Invalid lead id")
        ELSE IF patch.status # Null /\ ~ValidStatus(normalizeStatus(patch.status))
        THEN UpRespond(c, 400, "Invalid status")
        ELSE [c EXCEPT !.pc = "get", !.reads = @ + 1]

\* A request arrives and runs to its first store access (or to its response).
UpdateArrive(u, inputs, max) ==
    /\ up[u].pc \in {"idle", "done"}
    /\ nUpdates < max
    /\ \E req \in inputs :
         up' = [up EXCEPT ![u] = UpdateReceive([IdleUp EXCEPT !.req = req])]
    /\ nUpdates' = nUpdates + 1
    /\ UNCHANGED <<store, clock, env, ls, nLists>>
    /\ UNCHANGED createVars

\* await store.get(id) ends, then lines 175-189 up to store.setJSON: 404 for
\* no record, else applyPatch (which reads the clock) and the write is issued.
UpdateGet(u) ==
    LET c == up[u]
        id == c.req.body.id
    IN  /\ c.pc = "get"
        /\ \/ /\ env.storeMayFail
              /\ up' = [up EXCEPT ![u] = UpRespond(c, 500, "")]
           \/ IF ~StoreHas(id)
              THEN up' = [up EXCEPT ![u] = UpRespond(c, 404, "Lead not found")]
              ELSE LET res == applyPatch(store[id].json, coercePatch(c.req.body), toISOString(clock))
                   IN  IF ~res.ok
                       THEN up' = [up EXCEPT ![u] = UpRespond(c, 400, "Invalid status")]
                       ELSE up' = [up EXCEPT ![u] =
                                     [c EXCEPT !.pc = "set", !.updated = <<res.out>>, !.writes = @ + 1]]
        /\ UNCHANGED <<store, clock, env, nUpdates, ls, nLists>>
        /\ UNCHANGED createVars

\* await store.setJSON(id, updated, {metadata}) ends, then the 200.
UpdateSet(u) ==
    LET c == up[u]
        updated == c.updated[1]
    IN  /\ c.pc = "set"
        /\ \/ /\ store' = StorePut(c.req.body.id, updated,
                                   [status |-> IF updated.status # "" THEN updated.status ELSE "new",
                                    archived |-> IF updated.archived THEN "true" ELSE "false"])
              /\ up' = [up EXCEPT ![u] = UpRespond(c, 200, "")]
           \/ /\ env.storeMayFail
              /\ store' = store
              /\ up' = [up EXCEPT ![u] = UpRespond(c, 500, "")]
        /\ UNCHANGED <<clock, env, nUpdates, ls, nLists>>
        /\ UNCHANGED createVars

(***************************************************************************)
(* leads-list.js                                                           *)
(***************************************************************************)
HYDRATE_WIDTH == 20
LIMIT_MAX == 200
LIMIT_DEFAULT == 50

\* The characters of keys and addresses, in the order of their code units.
CodeOrder == "+-./0123456789:@" \o Uppers \o "_" \o Lowers

CharCode(c) == CHOOSE i \in 1..Len(CodeOrder) : CharAt(CodeOrder, i) = c

\* a > b on strings
RECURSIVE StrGreater(_, _)
StrGreater(a, b) ==
    IF a = "" THEN FALSE
    ELSE IF b = "" THEN TRUE
    ELSE IF CharAt(a, 1) = CharAt(b, 1) THEN StrGreater(Tail(a), Tail(b))
    ELSE CharCode(CharAt(a, 1)) > CharCode(CharAt(b, 1))

\* The orders in which store.list may enumerate the keys S.
RECURSIVE Enumerations(_)
Enumerations(S) ==
    IF S = {} THEN {<<>>}
    ELSE UNION {{<<k>> \o rest : rest \in Enumerations(S \ {k})} : k \in S}

\* k put into a sequence sorted with the comparator (a > b ? -1 : 1)
RECURSIVE InsertDesc(_, _)
InsertDesc(sorted, k) ==
    IF sorted = <<>> THEN <<k>>
    ELSE IF StrGreater(k, Head(sorted)) THEN <<k>> \o sorted
    ELSE <<Head(sorted)>> \o InsertDesc(Tail(sorted), k)

\* Array.prototype.sort left out: the keys as they were enumerated.
SortDescAsEnumerated(keys) == keys

\* keys.sort((a, b) => (a > b ? -1 : 1)), on the distinct keys of the store
\* in the order they were enumerated
RECURSIVE SortDesc(_)
SortDesc(keys) ==
    IF keys = <<>> THEN <<>>
    ELSE InsertDesc(SortDesc(Tail(keys)), Head(keys))

\* hay.includes(q)
Includes(hay, q) ==
    \E i \in 1..(Len(hay) + 1) : i + Len(q) - 1 <= Len(hay) /\ SubSeq(hay, i, i + Len(q) - 1) = q

RECURSIVE JoinSpace(_)
\* parts.filter(Boolean).join(" ")
JoinSpace(parts) ==
    IF parts = <<>> THEN ""
    ELSE IF Head(parts) \in {"", Null} THEN JoinSpace(Tail(parts))
    ELSE LET rest == JoinSpace(Tail(parts))
         IN  IF rest = "" THEN Head(parts) ELSE Head(parts) \o " " \o rest

\* The text the q filter scans.
Haystack(r) ==
    ToLowerCase(JoinSpace(<<r.lead.name, r.lead.phone, r.lead.instagram, r.lead.service,
                            r.lead.availability, r.lead.notes, r.status, r.internal_notes>>
                          \o r.tags))

\* The query string: each parameter a string, Null when absent; limit and
\* offset are strings of digits.
QueryOf(status, q, archived, limit, offset) ==
    [status |-> status, q |-> q, archived |-> archived, limit |-> limit, offset |-> offset]

\* (url.searchParams.get(name) || "").trim().toLowerCase()
Param(v) == ToLowerCase(Trim(IF v = Null THEN "" ELSE v))

Min2(a, b) == IF a < b THEN a ELSE b
Max2(a, b) == IF a > b THEN a ELSE b

\* Math.min(200, Math.max(1, Number(limit || "50")))
LimitOf(query) ==
    Min2(LIMIT_MAX, Max2(1, IF query.limit \in {Null, ""} THEN LIMIT_DEFAULT
                            ELSE ParseDigits(query.limit)))

\* Math.max(0, Number(offset || "0"))
OffsetOf(query) == IF query.offset \in {Null, ""} THEN 0 ELSE ParseDigits(query.offset)

\* The filters without the archived one.
MatchesAnyArchived(r, query) ==
    LET status == Param(query.status)
        q == Param(query.q)
    IN  /\ status # "" => ToLowerCase(r.status) = status
        /\ q # "" => Includes(Haystack(r), q)

\* The three filters of lines 46-72 on one record.
Matches(r, query) ==
    LET archivedMode == IF Param(query.archived) # "" THEN Param(query.archived) ELSE "false"
        status == Param(query.status)
        q == Param(query.q)
    IN  /\ \/ archivedMode = "all"
           \/ archivedMode = "true" /\ r.archived
           \/ archivedMode \notin {"all", "true"} /\ ~r.archived
        /\ status # "" => ToLowerCase(r.status) = status
        /\ q # "" => Includes(Haystack(r), q)

\* records.filter(Boolean) and the three filters; results[i] is <<>> for a
\* key that had no record
RECURSIVE Filtered(_, _)
Filtered(results, query) ==
    IF results = <<>> THEN <<>>
    ELSE (IF Head(results) # <<>> /\ Matches(Head(results)[1], query)
          THEN <<Head(results)[1]>> ELSE <<>>)
         \o Filtered(Tail(results), query)

\* filtered.slice(offset, offset + limit)
Page(filtered, offset, limit) ==
    IF offset >= Len(filtered) THEN <<>>
    ELSE SubSeq(filtered, offset + 1, Min2(Len(filtered), offset + limit))

ListReq(method, auth, user, query) ==
    [method |-> method, auth |-> auth, user |-> user, query |-> query]

ListSlots == 1..NListSlots

\* A slot with no request in it.  blobs is what store.list enumerated.
\* keys, next, inflight, results, width and failed are the state of mapLimit:
\* the items (the sorted keys), the next index to hand out (i), the indexes
\* whose fn is in flight, what was read, the number of workers, and whether
\* an invocation has thrown; limit is the limit mapLimit was called with,
\* calls[i] the number of invocations of fn on items[i] and order the order
\* in which the invocations returned; lists and reads count the store
\* operations issued.
IdleLs ==
    [pc |-> "idle", req |-> ListReq("", "", NoUser, QueryOf(Null, Null, Null, Null, Null)),
     blobs |-> <<>>, keys |-> <<>>, next |-> 0, inflight |-> {}, results |-> <<>>,
     width |-> 0, failed |-> FALSE, limit |-> 0, calls |-> <<>>, order |-> <<>>,
     resp |-> 0, error |-> "", total |-> 0, page |-> <<>>, lists |-> 0, reads |-> 0]

LsRespond(c, status, error) == [c EXCEPT !.pc = "done", !.resp = status, !.error = error]

\* Lines 46-76: the filters, the page and the response.
ListFinish(c) ==
    LET filtered == Filtered(c.results, c.req.query)
    IN  [c EXCEPT !.pc = "done", !.resp = 200, !.total = Len(filtered),
                  !.page = Page(filtered, OffsetOf(c.req.query), LimitOf(c.req.query))]

\* Lines 12-37: everything up to the store.list the handler awaits.
ListReceive(c) ==
    LET req == c.req
        jwt == requireJwt(req.auth, req.user)
        admin == requireAdmin(req.user)
    IN  IF req.method = "OPTIONS" THEN LsRespond(c, 204, "")
        ELSE IF req.method # "GET" THEN LsRespond(c, 405, "Method not allowed")
        ELSE IF ~jwt.ok THEN LsRespond(c, jwt.status, jwt.error)
        ELSE IF ~admin.ok THEN LsRespond(c, admin.status, admin.error)
        ELSE [c EXCEPT !.pc = "list", !.lists = @ + 1]

\* A request arrives and runs to its first store access (or to its response).
ListArrive(l, inputs, max) ==
    /\ ls[l].pc \in {"idle", "done"}
    /\ nLists < max
    /\ \E req \in inputs :
         ls' = [ls EXCEPT ![l] = ListReceive([IdleLs EXCEPT !.req = req])]
    /\ nLists' = nLists + 1
    /\ UNCHANGED <<store, clock, env, up, nUpdates>>
    /\ UNCHANGED createVars

\* Promise.all(items.map(fn)) in the place of the worker pool: every item
\* is read at once.
MapLimitStartAll(c, keys, limit) ==
    [c EXCEPT !.keys = keys, !.next = Len(keys), !.inflight = 1..Len(keys),
              !.width = Max2(1, limit), !.failed = FALSE, !.order = <<>>,
              !.limit = limit, !.calls = [i \in 1..Len(keys) |-> 1],
              !.results = [i \in 1..Len(keys) |-> <<>>], !.reads = @ + Len(keys)]

\* mapLimit(items, limit, fn) starts: Math.max(1, limit) workers, each taking
\* the next index while one is left; the first indexes are read at once.
MapLimitStart(c, keys, limit) ==
    LET first == Min2(Max2(1, limit), Len(keys))
    IN  [c EXCEPT !.keys = keys, !.next = first, !.inflight = 1..first,
                  !.width = Max2(1, limit), !.failed = FALSE, !.order = <<>>,
                  !.limit = limit, !.calls = [i \in 1..Len(keys) |-> IF i <= first THEN 1 ELSE 0],
                  !.results = [i \in 1..Len(keys) |-> <<>>], !.reads = @ + first]

\* await store.list({prefix: "leads/"}) ends: the keys, newest first, and
\* the hydration starts with mapLimit(keys, limit, ...), or, with no key,
\* the response is made.
ListKeysLimit(l, limit) ==
    LET c == ls[l]
    IN  /\ c.pc = "list"
        /\ \/ /\ env.storeMayFail
              /\ ls' = [ls EXCEPT ![l] = LsRespond(c, 500, "")]
           \/ \E blobs \in Enumerations({k \in DOMAIN store : StartsWith(k, "leads/")}) :
                LET keys == SortDesc(blobs)
                IN  IF keys = <<>>
                    THEN ls' = [ls EXCEPT ![l] = ListFinish(c)]
                    ELSE ls' = [ls EXCEPT ![l] =
                                  [MapLimitStart(c, keys, limit) EXCEPT
                                     !.pc = "hydrate", !.blobs = blobs]]
        /\ UNCHANGED <<store, clock, env, up, nUpdates, nLists>>
        /\ UNCHANGED createVars

\* The handler's call: mapLimit(keys, 20, ...).
ListKeys(l) == ListKeysLimit(l, HYDRATE_WIDTH)

\* One store.get(key) of the hydration ends.  Returned: its worker stores
\* the record and takes the next index, if any; after the last one the
\* response is made.  Thrown: the worker ends there, Promise.all rejects and
\* the handler, which has no catch, fails (500); the other workers go on
\* with the remaining indexes (pc = "orphan") and their results are dropped.
ListRead(l) ==
    LET c == ls[l]
    IN  /\ c.pc \in {"hydrate", "orphan"}
        /\ \E idx \in c.inflight :
             \/ /\ env.storeMayFail
                /\ LET c1 == [c EXCEPT !.inflight = @ \ {idx}, !.failed = TRUE,
                                       !.resp = 500, !.error = ""]
                   IN  ls' = [ls EXCEPT ![l] =
                                [c1 EXCEPT !.pc = IF c1.inflight = {} THEN "done" ELSE "orphan"]]
             \/ LET read == IF StoreHas(c.keys[idx]) THEN <<store[c.keys[idx]].json>> ELSE <<>>
                    more == c.next < Len(c.keys)
                    c1 == [c EXCEPT !.results[idx] = read, !.order = Append(@, idx),
                                    !.inflight = (@ \ {idx}) \cup (IF more THEN {c.next + 1} ELSE {}),
                                    !.next = IF more THEN @ + 1 ELSE @,
                                    !.calls = IF more THEN [@ EXCEPT ![c.next + 1] = @ + 1] ELSE @,
                                    !.reads = IF more THEN @ + 1 ELSE @]
                IN  ls' = [ls EXCEPT ![l] =
                             IF c1.inflight # {} THEN c1
                             ELSE IF c.failed THEN [c1 EXCEPT !.pc = "done"]
                             ELSE ListFinish(c1)]
        /\ UNCHANGED <<store, clock, env, up, nUpdates, nLists>>
        /\ UNCHANGED createVars

\* No update or list request has arrived.
NoAdminRequests ==
    /\ up = [u \in UpdateSlots |-> IdleUp]
    /\ nUpdates = 0
    /\ ls = [l \in ListSlots |-> IdleLs]
    /\ nLists = 0

\* The source keys the model's inputs lead to.
RateKeys ==
    { rateKeyForIp(getClientIp(i.ctxIp, i.fwd)) : i \in CreateInputs \cup SeqInputs } \ {""}

InitCreate ==
    /\ store = [k \in {} |-> 0]
    /\ clock = TickMs
    /\ env \in [openaiKey : BOOLEAN, twilio : BOOLEAN, storeMayFail : {TRUE},
                 adminEmails : {""}, adminRole : {""}]
    /\ cr = [r \in CreateSlots |-> IdleCr]
    /\ nCreates = 0
    /\ hist = [k \in RateKeys |-> <<>>]
    /\ NoAdminRequests

CreateStep(r) ==
    \/ CreateStart(r)
    \/ RateGet(r)
    \/ RateSet(r)
    \/ GenReturn(r)
    \/ LeadWrite(r)
    \/ SmsReturn(r)

\* Create requests of every kind, against a store and services that may
\* fail, handled one after the other.
NextCreate == CreateStep(1) \/ Tick

SpecCreate == InitCreate /\ [][NextCreate]_vars

\* Valid create requests handled one after the other, the store working and
\* the optional services not configured.
InitSeq ==
    /\ store = [k \in {} |-> 0]
    /\ clock = TickMs
    /\ env = [openaiKey |-> FALSE, twilio |-> FALSE, storeMayFail |-> FALSE,
              adminEmails |-> "", adminRole |-> ""]
    /\ cr = [r \in CreateSlots |-> IdleCr]
    /\ nCreates = 0
    /\ hist = [k \in RateKeys |-> <<>>]
    /\ NoAdminRequests

NextSeq ==
    \/ SeqStart
    \/ RateGet(1)
    \/ RateSet(1)
    \/ LeadWrite(1)
    \/ Tick

SpecSeq == InitSeq /\ [][NextSeq]_vars

(***************************************************************************)
(* The admin surface: leads are created, then updated and listed.          *)
(***************************************************************************)
\* The submission that creates the leads of these specifications.
LeadInputs == { i \in SeqInputs : i.ctxIp # "" }

LeadArrive == Arrive(1, LeadInputs, MaxLeads)

IsLeadKey(k) == StartsWith(k, "leads/")
LeadKeys == {k \in DOMAIN store : IsLeadKey(k)}

ADMIN_EMAILS == " ashlee@example.com , Boss@Example.com"
ADMIN_ROLE == " admin "

GoodAuth == "Bearer tok"
AdminUser == UserOf("Ashlee@Example.com", <<>>)

\* A key of the right form under which nothing is stored.
AbsentKey == newLeadKey(0, 255)

\* A patch that also carries fields of the record the handler does not
\* take from a patch.
PatchWithRecordFields ==
    PatchOf("closed", Null, NoTags, <<>>)
    @@ [id |-> "rate/1.2.3.4", created_at |-> toISOString(0),
        lead |-> "none", suggested_dm |-> "none", meta |-> "none", booking |-> "none"]

\* The patches the model sends.
Patches == {
    PatchOf("contacted", Null, NoTags, <<>>),
    PatchOf(" Booked ", Null, NoTags, <<>>),
    PatchOf("bogus", "call back", TagsOf(<<"vip">>), <<TRUE>>),
    PatchOf(Null, " call back ", TagsOf(<<"vip", "  ", "regular">>), <<>>),
    PatchOf("NEW", Null, NoTags, <<TRUE>>),
    PatchWithRecordFields }

\* Authorized update requests: every patch on every stored lead, and bodies
\* that name no stored lead or do not parse.
UpdateInputs ==
    { UpdateReq("PATCH", GoodAuth, AdminUser, UpdateBody("object", id, TRUE, p)) :
        id \in LeadKeys, p \in Patches }
    \cup
    { UpdateReq("POST", GoodAuth, AdminUser, b) :
        b \in { UpdateBody("object", AbsentKey, TRUE, PatchOf("closed", Null, NoTags, <<>>)),
                UpdateBody("object", "rate/1.2.3.4", TRUE, PatchOf("closed", Null, NoTags, <<>>)),
                UpdateBody("object", "leads/../rate/1.2.3.4", TRUE, PatchOf("closed", Null, NoTags, <<>>)),
                UpdateBody("object", SubSeq(AbsentKey, 1, Len(AbsentKey) - 1) \o "g", TRUE, NoPatch),
                UpdateBody("object", AbsentKey \o "0", FALSE, NoPatch),
                UpdateBody("object", Null, TRUE, PatchOf("closed", Null, NoTags, <<>>)),
                UpdateBody("invalid", Null, FALSE, NoPatch) } }

UpdateStart(u) == UpdateArrive(u, UpdateInputs, MaxUpdates)

InitUpdate ==
    /\ store = [k \in {} |-> 0]
    /\ clock = TickMs
    /\ env = [openaiKey |-> FALSE, twilio |-> FALSE, storeMayFail |-> FALSE,
              adminEmails |-> ADMIN_EMAILS, adminRole |-> ""]
    /\ cr = [r \in CreateSlots |-> IdleCr]
    /\ nCreates = 0
    /\ hist = [k \in RateKeys |-> <<>>]
    /\ NoAdminRequests

\* A lead is created; authorized update requests on it are in flight together.
NextUpdate ==
    \/ LeadArrive
    \/ RateGet(1)
    \/ RateSet(1)
    \/ LeadWrite(1)
    \/ \E u \in UpdateSlots : UpdateStart(u) \/ UpdateGet(u) \/ UpdateSet(u)
    \/ Tick

SpecUpdate == InitUpdate /\ [][NextUpdate]_vars

\* Requests with every kind of credential and identity.
Credentials ==
    { <<a, w>> : a \in {"", "Basic abc", "bearer tok"},
                 w \in {NoUser, AdminUser, UserOf("visitor@example.com", <<"admin">>),
                        UserOf("", <<"editor">>)} }

AuthUpdateInputs ==
    { UpdateReq("PATCH", a[1], a[2],
                UpdateBody("object", id, TRUE, PatchOf("contacted", Null, NoTags, <<>>))) :
        a \in Credentials, id \in LeadKeys \cup {AbsentKey} }
    \cup
    { UpdateReq(m, "", NoUser, UpdateBody("object", AbsentKey, TRUE, NoPatch)) :
        m \in {"GET", "OPTIONS"} }

AuthListInputs ==
    { ListReq("GET", a[1], a[2], QueryOf(Null, Null, Null, Null, Null)) : a \in Credentials }
    \cup
    { ListReq(m, "", NoUser, QueryOf(Null, Null, Null, Null, Null)) : m \in {"POST", "OPTIONS"} }

AuthUpdateStart == UpdateArrive(1, AuthUpdateInputs, MaxAuthUpdates)
AuthListStart == ListArrive(1, AuthListInputs, MaxLists)

InitAuth ==
    /\ store = [k \in {} |-> 0]
    /\ clock = TickMs
    /\ env \in [openaiKey : {FALSE}, twilio : {FALSE}, storeMayFail : {FALSE},
                adminEmails : {"", ADMIN_EMAILS}, adminRole : {"", ADMIN_ROLE}]
    /\ cr = [r \in CreateSlots |-> IdleCr]
    /\ nCreates = 0
    /\ hist = [k \in RateKeys |-> <<>>]
    /\ NoAdminRequests

\* A lead is created; update and list requests arrive with any credential,
\* under every configuration of the allowlist and the role.
NextAuth ==
    \/ LeadArrive
    \/ RateGet(1)
    \/ RateSet(1)
    \/ LeadWrite(1)
    \/ AuthUpdateStart
    \/ UpdateGet(1)
    \/ UpdateSet(1)
    \/ AuthListStart
    \/ ListKeys(1)
    \/ ListRead(1)

SpecAuth == InitAuth /\ [][NextAuth]_vars

(***************************************************************************)
(* A burst: valid create requests of one source handled concurrently.      *)
(***************************************************************************)
BurstStart(r) == Arrive(r, LeadInputs, MaxBurstCreates)

\* Valid create requests from one address, up to NCreateSlots of them in
\* flight together, the store working and no optional service configured.
NextBurst ==
    \/ \E r \in CreateSlots : BurstStart(r) \/ RateGet(r) \/ RateSet(r) \/ LeadWrite(r)
    \/ Tick

SpecBurst == InitSeq /\ [][NextBurst]_vars

(***************************************************************************)
(* Listing: a store of leads as create and update leave them, and list     *)
(* requests with every kind of query.                                      *)
(***************************************************************************)
\* The record a create request made at time t (the uid-th one) stores for
\* body, with no generation service configured.
CreatedLead(uid, t, body) ==
    LET lead == validatePayload(body).lead
    IN  [NewLeadRecord(newLeadKey(t, uid), t, lead, "1.2.3.4") EXCEPT
           !.suggested_dm = fallbackDm(lead.name)]

\* The leads the listing specifications draw their store from, oldest
\* first: two of them created in the same millisecond, one booked and
\* archived later, one annotated, one contacted.
SeedLeads ==
    << CreatedLead(0, TickMs, BodyOf("object", Null, "Jess", "4355551234", Null, "fill", 70)),
       applyPatch(CreatedLead(1, 2 * TickMs, BodyOf("object", Null, " Ann ", Null, "ann.nails", Null, 50)),
                  PatchOf(" Booked ", Null, NoTags, <<TRUE>>), toISOString(3 * TickMs)).out,
       applyPatch(CreatedLead(2, 2 * TickMs, BodyOf("object", Null, "Jess", "(435) 555-1234", Null, Null, 60)),
                  PatchOf(Null, " call back ", TagsOf(<<"vip">>), <<>>), toISOString(3 * TickMs)).out,
       applyPatch(CreatedLead(3, 3 * TickMs, BodyOf("object", Null, "Bea", "+14355550000", Null, Null, 60)),
                  PatchOf("contacted", Null, NoTags, <<>>), toISOString(3 * TickMs)).out >>

Seeds == {SeedLeads[i] : i \in 1..Min2(MaxSeeds, Len(SeedLeads))}

\* The store holding the records S, each with its mirrored metadata.
StoreOf(S) ==
    [k \in {r.id : r \in S} |->
        LET r == CHOOSE x \in S : x.id = k
        IN  [json |-> r,
             metadata |-> [status |-> r.status,
                           archived |-> IF r.archived THEN "true" ELSE "false"]]]

ListQueries == {
    QueryOf(Null, Null, Null, Null, Null),
    QueryOf(Null, Null, " TRUE ", Null, Null),
    QueryOf(Null, Null, "all", Null, Null),
    QueryOf(Null, Null, "all", "1", "1"),
    QueryOf("Booked", Null, "all", Null, Null),
    QueryOf(Null, "JESS", "false", Null, Null),
    QueryOf(Null, "vip", Null, "2", Null),
    QueryOf(Null, Null, Null, "1", Null) }

ListInputs == { ListReq("GET", GoodAuth, AdminUser, q) : q \in ListQueries }

ListStart(l) == ListArrive(l, ListInputs, MaxLists)

InitList ==
    /\ store \in {StoreOf(S) : S \in SUBSET Seeds}
    /\ clock = 4 * TickMs
    /\ env = [openaiKey |-> FALSE, twilio |-> FALSE, storeMayFail |-> TRUE,
              adminEmails |-> ADMIN_EMAILS, adminRole |-> ""]
    /\ cr = [r \in CreateSlots |-> IdleCr]
    /\ nCreates = 0
    /\ hist = [k \in RateKeys |-> <<>>]
    /\ NoAdminRequests

\* Authorized list requests against a store whose operations may throw.
NextList == \E l \in ListSlots : ListStart(l) \/ ListKeys(l) \/ ListRead(l)

SpecList == InitList /\ [][NextList]_vars

(***************************************************************************)
(* mapLimit with every limit from 0 to MaxLimit, below the number of items *)
(* and not, fn being the point-read of the listing.                        *)
(***************************************************************************)
MapLimits == 0..MaxLimit

MapLimitCall(l) == \E limit \in MapLimits : ListKeysLimit(l, limit)

NextMapLimit == \E l \in ListSlots : ListStart(l) \/ MapLimitCall(l) \/ ListRead(l)

SpecMapLimit == InitList /\ [][NextMapLimit]_vars

(***************************************************************************)
(* Properties of the rate limiter (SpecSeq).                               *)
(***************************************************************************)
\* The start of the window the i-th request of a source falls in: the first
\* request opens a window, and so does every request that arrives once the
\* window before it has lasted WINDOW_MS.
RECURSIVE WinStart(_, _)
WinStart(h, i) ==
    IF i = 1 THEN h[1].t
    ELSE IF h[i].t - WinStart(h, i - 1) >= WINDOW_MS THEN h[i].t
         ELSE WinStart(h, i - 1)

OpensWindow(h, i) == i = 1 \/ h[i].t - WinStart(h, i - 1) >= WINDOW_MS

\* The i-th request is the PosInWindow-th of its window.
PosInWindow(h, i) == Cardinality({j \in 1..i : WinStart(h, j) = WinStart(h, i)})

\* C1: for valid requests of one source handled one after the other with a
\* working store, the first MAX_REQ requests of a window are admitted, the
\* (MAX_REQ+1)-th is rejected (the response is 429), and a request arriving
\* once the window has elapsed is admitted and stores the window
\* (window_start_at = its time, count = 1).
C1_WindowAdmission ==
    /\ \A k \in RateKeys :
         LET h == hist[k]
         IN  \A i \in 1..Len(h) :
               /\ PosInWindow(h, i) <= MAX_REQ => h[i].admitted
               /\ PosInWindow(h, i) = MAX_REQ + 1 => ~h[i].admitted
               /\ OpensWindow(h, i) =>
                    /\ h[i].admitted
                    /\ h[i].wrote # <<>>
                    /\ h[i].wrote[1].window_start_at = toISOString(h[i].t)
                    /\ h[i].wrote[1].count = 1
    /\ LET c == cr[1]
       IN  c.pc = "done" /\ c.rk # "" =>
             /\ hist[c.rk] # <<>>
             /\ (c.resp = 429) = ~hist[c.rk][Len(hist[c.rk])].admitted
             /\ c.resp # 429 => /\ StoreHas(c.rk)
                                /\ <<store[c.rk].json>> = hist[c.rk][Len(hist[c.rk])].wrote

\* Witness of C1: one source was admitted three times, rejected the fourth
\* time in the same window, and admitted again after the window elapsed.
C1_Witness ==
    \E k \in RateKeys :
      LET h == hist[k]
      IN  /\ Len(h) >= 5
          /\ PosInWindow(h, 4) = 4 /\ ~h[4].admitted
          /\ OpensWindow(h, 5) /\ h[5].admitted
          /\ h[5].t - h[1].t = WINDOW_MS

(***************************************************************************)
(* Properties of one create request (SpecCreate).                          *)
(***************************************************************************)
\* The request passes every check made before the rate block.
PassesValidation(req) ==
    /\ req.method = "POST"
    /\ ~isPayloadTooLarge(req.contentLength, MAX_BYTES)
    /\ req.body.json = "object"
    /\ sanitizeString(req.body.hp, 200) = ""
    /\ req.body.chars <= MAX_BYTES
    /\ validatePayload(req.body).ok

\* C2: the write of the lead record has succeeded before the gateway is
\* called and before a 200 is answered; when the write fails there is no 200
\* and no gateway call.
C2_PersistBeforeNotify ==
    \A r \in CreateSlots :
      LET c == cr[r]
      IN  /\ c.smsCalls > 0 => c.leadWrite = "ok" /\ StoreHas(c.key)
          /\ c.resp = 200 => c.leadWrite = "ok" /\ StoreHas(c.key)
          /\ c.leadWrite = "failed" => c.pc = "done" /\ c.resp # 200 /\ c.smsCalls = 0
          /\ c.pc \in {"rl_get", "rl_set", "gen", "store"} => c.smsCalls = 0 /\ c.resp = 0

\* Witness of C2: a request answered 200 after the write and a gateway call;
\* the gateway was called no earlier than the write.
C2_Witness ==
    \E r \in CreateSlots :
      /\ cr[r].resp = 200 /\ cr[r].smsCalls = 1 /\ cr[r].leadWrite = "ok"
      /\ StoreHas(cr[r].key)

\* C3: a request that passes validation, is not rate-rejected and whose lead
\* write does not fail is answered 200 with the record persisted, whatever
\* became of the rate-state operations, the generation service and the
\* gateway.
C3_BestEffortNeverFails ==
    \A r \in CreateSlots :
      LET c == cr[r]
      IN  c.pc = "done" /\ PassesValidation(c.req) /\ c.resp # 429 /\ c.leadWrite # "failed" =>
            /\ c.resp = 200
            /\ c.leadWrite = "ok"
            /\ StoreHas(c.key)
            /\ store[c.key].json.lead = c.lead

\* Witness of C3: a 200 although a rate-state operation threw, the
\* generation call threw and the gateway dispatch threw.
C3_Witness ==
    \E r \in CreateSlots :
      LET c == cr[r]
      IN  /\ c.pc = "done" /\ c.resp = 200 /\ StoreHas(c.key)
          /\ c.rateFault /\ c.genResult = "threw" /\ c.smsResult = "threw"

\* C3, more witnesses: missing credentials and an empty generated text.
C3_WitnessNoCredentials ==
    \E r \in CreateSlots :
      LET c == cr[r]
      IN  /\ c.pc = "done" /\ c.resp = 200 /\ StoreHas(c.key)
          /\ c.genResult = "nokey" /\ c.smsResult = "unconfigured"

StampSet(v) == v \notin {Null, ""}

\* C6: once contacted_at (closed_at) of a stored lead is set, no step changes
\* or clears it, whatever the interleaving of the update requests on it.
C6_StampsNeverChange ==
    [][\A k \in LeadKeys :
         /\ StampSet(store[k].json.contacted_at)
              => store'[k].json.contacted_at = store[k].json.contacted_at
         /\ StampSet(store[k].json.closed_at)
              => store'[k].json.closed_at = store[k].json.closed_at]_vars

\* The request carries a bearer credential and a verified identity.
Identified(req) == StartsWith(ToLowerCase(req.auth), "bearer ") /\ req.user.present

\* The identity is on the configured allowlist or holds the configured role.
Admitted(req) ==
    \/ ToLowerCase(req.user.email) \in AllowList
    \/ Trim(env.adminRole) # "" /\ Trim(env.adminRole) \in SeqToSet(req.user.roles)

\* What C7 asks of one request c that the handler has taken up: methods are
\* those the handler serves, ops the store operations it has issued.
AuthorizedFirst(c, methods, ops) ==
    c.pc # "idle" =>
      /\ ~(Identified(c.req) /\ Admitted(c.req)) => ops = 0 /\ c.pc = "done"
      /\ c.req.method \in methods /\ ~Identified(c.req) => c.resp = 401
      /\ c.req.method \in methods /\ Identified(c.req) /\ ~Admitted(c.req) => c.resp = 403
      /\ AllowList = {} /\ Trim(env.adminRole) = "" => c.resp # 200

\* C7: an update or list request issues no store get, list or set unless
\* authorization succeeded: 401 without bearer header or identity, 403 for an
\* identity neither on the allowlist nor in the role, and no success at all
\* when neither allowlist nor role is configured.
C7_AuthorizationBeforeStore ==
    /\ \A u \in UpdateSlots : AuthorizedFirst(up[u], {"POST", "PATCH"}, up[u].reads + up[u].writes)
    /\ \A l \in ListSlots : AuthorizedFirst(ls[l], {"GET"}, ls[l].lists + ls[l].reads)

\* A lead is stored; an identified update request naming it was answered 403,
\* a list request without identity 401, and neither touched the store.
C7_Witness ==
    /\ up[1].pc = "done" /\ up[1].resp = 403 /\ Identified(up[1].req)
    /\ StoreHas(up[1].req.body.id)
    /\ up[1].reads + up[1].writes = 0
    /\ ls[1].pc = "done" /\ ls[1].resp = 401 /\ ls[1].req.method = "GET"
    /\ ls[1].lists + ls[1].reads = 0

\* C8: the status of every stored lead record, and the status mirrored in
\* its metadata, is one of new, contacted, booked, closed, noshow.
C8_StatusInValidSet ==
    \A k \in LeadKeys :
      /\ store[k].json.status \in VALID_STATUSES
      /\ store[k].metadata.status \in VALID_STATUSES

\* An update whose status was sent padded and capitalised has been stored.
C8_Witness ==
    \E u \in UpdateSlots :
      /\ up[u].pc = "done" /\ up[u].resp = 200
      /\ up[u].req.body.patch.status = " Booked "
      /\ StoreHas(up[u].req.body.id)
      /\ store[up[u].req.body.id].json.status = "booked"

\* An authorized, well-formed update request whose patch.status, trimmed and
\* lower-cased, is outside the status set.
InvalidStatusRequest(req) ==
    /\ req.method \in {"POST", "PATCH"}
    /\ Identified(req) /\ Admitted(req)
    /\ req.body.json = "object" /\ req.body.hasPatch
    /\ req.body.patch.status # Null
    /\ ToLowerCase(Trim(req.body.patch.status)) \notin VALID_STATUSES

\* C9: every step of an authorized update request with an invalid
\* patch.status leaves the store (records and metadata) as it was and answers
\* 400, whatever else the patch carries.
C9_InvalidStatusRejected ==
    [][\A u \in UpdateSlots :
         (up'[u] # up[u] /\ InvalidStatusRequest(up'[u].req))
           => /\ up'[u].pc = "done" /\ up'[u].resp = 400
              /\ up'[u].reads = 0 /\ up'[u].writes = 0
              /\ store' = store]_vars

\* A patch with an invalid status and valid notes, tags and archived was
\* answered 400 and the lead it names still has no notes, tags or archive flag.
C9_Witness ==
    \E u \in UpdateSlots :
      LET c == up[u] IN
      /\ InvalidStatusRequest(c.req)
      /\ c.pc = "done" /\ c.resp = 400
      /\ c.req.body.patch.internal_notes # Null /\ c.req.body.patch.archived = <<TRUE>>
      /\ StoreHas(c.req.body.id)
      /\ store[c.req.body.id].json.internal_notes = ""
      /\ ~store[c.req.body.id].json.archived

\* C10: no step lowers the updated_at of a stored lead record.
C10_UpdatedAtNeverDecreases ==
    [][\A k \in LeadKeys :
         DateParse(store'[k].json.updated_at) >= DateParse(store[k].json.updated_at)]_vars

(***************************************************************************)
(* Properties of the create handler's rejections (SpecCreate).             *)
(***************************************************************************)
\* The request was answered 400 and did nothing else: no key generated, no
\* lead written, no rate-state operation, no generation or gateway call.
RejectedWithoutEffect(c) ==
    /\ c.pc = "done" /\ c.resp = 400
    /\ c.key = "" /\ c.leadWrite = "none"
    /\ c.rateOps = 0 /\ c.next = <<>>
    /\ c.genCalls = 0 /\ c.smsCalls = 0

\* A POST within the declared size cap whose body parsed to an object.
PostWithinCap(req) ==
    /\ req.method = "POST"
    /\ req.contentLength <= MAX_BYTES
    /\ req.body.json = "object"

LacksNameOrContact(body) ==
    \/ body.json # "object"
    \/ body.name = Null
    \/ Trim(body.name) = ""
    \/ normalizePhone(body.phone) = "" /\ normalizeInstagram(body.instagram) = ""

\* C12: a create request (a POST within the size caps) whose payload has no
\* name, or neither phone nor instagram after normalization, is answered 400
\* with no lead written, no rate window read or written and no generation or
\* gateway call.
C12_InvalidPayloadNoEffect ==
    \A r \in CreateSlots :
      (/\ cr[r].pc # "idle"
       /\ cr[r].req.method = "POST"
       /\ cr[r].req.contentLength <= MAX_BYTES
       /\ ApproxLen(cr[r].req.body) <= MAX_BYTES
       /\ LacksNameOrContact(cr[r].req.body))
        => RejectedWithoutEffect(cr[r])

\* A submission from a known address with a name, a phone that does not
\* normalize and an instagram handle of "@" alone was rejected; the store
\* holds neither a lead nor that address's window.
C12_Witness ==
    \E r \in CreateSlots :
      /\ cr[r].req.method = "POST" /\ cr[r].req.ctxIp = "1.2.3.4"
      /\ cr[r].req.body.name = "Jess" /\ cr[r].req.body.phone = "555-1234"
      /\ cr[r].req.body.instagram = " @ " /\ cr[r].req.body.hp = Null
      /\ RejectedWithoutEffect(cr[r]) /\ cr[r].error = "Provide phone or instagram"
      /\ LeadKeys = {} /\ ~StoreHas(rateKeyForIp("1.2.3.4"))

(***************************************************************************)
(* Properties of the rate limiter under concurrency (SpecBurst).           *)
(***************************************************************************)
\* The stored leads submitted from address ip.
LeadsFrom(ip) == {k \in LeadKeys : store[k].json.meta.ip = ip}

\* All the records under keys ks were created within one window's length.
WithinOneWindow(ks) ==
    \A a, b \in ks :
      DateParse(store[a].json.created_at) - DateParse(store[b].json.created_at) < WINDOW_MS

\* C13: the rate check admits a request only on the count that request
\* read: every window record a request computes has count <= MAX_REQ, so an
\* admission beyond the limit (the witness below) comes from concurrent
\* requests reading the same record before either writes it, not from the
\* check letting a full window through.
C13_AdmittedOnCountRead ==
    /\ \A r \in CreateSlots : cr[r].next # <<>> => cr[r].next[1].count \in 1..MAX_REQ
    /\ \A k \in RateKeys : \A i \in 1..Len(hist[k]) :
         hist[k][i].wrote # <<>> => hist[k][i].wrote[1].count \in 1..MAX_REQ

\* More than MAX_REQ leads of one address, all created inside one window,
\* are persisted, and no request of that address was rejected.
C13_Witness ==
    /\ Cardinality(LeadsFrom("1.2.3.4")) > MAX_REQ
    /\ WithinOneWindow(LeadsFrom("1.2.3.4"))
    /\ \A i \in 1..Len(hist[rateKeyForIp("1.2.3.4")]) : hist[rateKeyForIp("1.2.3.4")][i].admitted

(***************************************************************************)
(* The rate limiter as a sliding window (SpecSeq).                         *)
(***************************************************************************)
\* The admitted requests of history h whose time lies in [t, t + WINDOW_MS).
AdmittedIn(h, t) ==
    {j \in 1..Len(h) : h[j].admitted /\ h[j].t >= t /\ h[j].t < t + WINDOW_MS}

Hydrated(l) == ls[l].keys # <<>>

\* C15: a list request whose keys were enumerated succeeds whatever becomes
\* of the point-reads: a read that returns nothing or throws only drops its
\* record, the listing is still answered 200.
C15_ListingSurvivesFailedRead ==
    \A l \in ListSlots :
        (Hydrated(l) /\ ls[l].pc \in {"done", "orphan"}) => ls[l].resp = 200

\* C16: the page of a successful listing is newest first by creation time,
\* whatever order the store enumerated the keys in and whatever order the
\* point-reads returned in: a record before another is not older than it.
C16_NewestFirst ==
    \A l \in ListSlots :
        ls[l].resp = 200 =>
            \A i, j \in 1..Len(ls[l].page) :
                i < j => DateParse(ls[l].page[i].created_at) >= DateParse(ls[l].page[j].created_at)

\* A listing of three records, two of them created in the same millisecond,
\* whose keys were enumerated oldest first and whose reads did not return in
\* index order.
C16_Witness ==
    \E l \in ListSlots :
        /\ ls[l].resp = 200
        /\ Len(ls[l].page) = 3
        /\ ls[l].blobs # ls[l].keys
        /\ ls[l].blobs[1] = ls[l].keys[3]
        /\ ls[l].order # <<1, 2, 3>>
        /\ ls[l].page[1].created_at # ls[l].page[3].created_at
        /\ ls[l].page[1].created_at = ls[l].page[2].created_at

\* The stored leads a listing with this query is to return: those of the
\* archived kind asked for (not archived unless the parameter says "true" or
\* "all") that have the status asked for, if any, and contain the text
\* asked for, if any.
Wanted(query) ==
    LET mode == Param(query.archived) IN
    { k \in DOMAIN store :
        /\ StartsWith(k, "leads/")
        /\ mode = "all" \/ (store[k].json.archived <=> mode = "true")
        /\ Param(query.status) # "" => store[k].json.status = Param(query.status)
        /\ Param(query.q) # "" => Includes(Haystack(store[k].json), Param(query.q)) }

\* C17: a successful listing returns only wanted records (not archived ones
\* by default, archived ones with archived=true, both with archived=all),
\* and total is the number of wanted records, whatever the page holds.
C17_ArchivedFilterAndTotal ==
    \A l \in ListSlots :
        ls[l].resp = 200 =>
            /\ \A i \in 1..Len(ls[l].page) : ls[l].page[i].id \in Wanted(ls[l].req.query)
            /\ ls[l].total = Cardinality(Wanted(ls[l].req.query))
            /\ Len(ls[l].page) <= ls[l].total

\* A listing with the archived parameter omitted and a limit of one, of a
\* store holding an archived lead and two others: total is 2, the page
\* holds one record.
C17_Witness ==
    \E l \in ListSlots :
        /\ ls[l].resp = 200
        /\ ls[l].req.query.archived = Null
        /\ \E k \in DOMAIN store : StartsWith(k, "leads/") /\ store[k].json.archived
        /\ ls[l].total = 2
        /\ Len(ls[l].page) = 1

(***************************************************************************)
(* Properties of the update handler's key validation and frame             *)
(* (SpecUpdate).                                                           *)
(***************************************************************************)
\* id is a string of the form newLeadKey generates.
WellFormedId(id) == id # Null /\ LEAD_KEY_RE(id)

\* C18: the update handler issues a store get or set only for an id of the
\* generated form; another id is answered 400 with no store access, so that
\* every entry under a key of another form (a rate window) is as the create
\* handler wrote it and no such entry is created; an update of a well-formed
\* id with no stored record is answered 404 and writes nothing.
C18_StoreAccessOnlyForLeadKeys ==
    /\ \A u \in UpdateSlots :
         LET c == up[u]
             id == c.req.body.id
         IN  /\ c.reads + c.writes > 0 => WellFormedId(id)
             /\ (c.pc = "done" /\ Identified(c.req) /\ Admitted(c.req)
                   /\ c.req.body.json = "object" /\ ~WellFormedId(id))
                  => c.resp = 400 /\ c.reads = 0 /\ c.writes = 0
             /\ c.resp = 404 => WellFormedId(id) /\ ~StoreHas(id) /\ c.writes = 0
    /\ \A k \in DOMAIN store :
         IF IsLeadKey(k) THEN WellFormedId(k)
         ELSE k \in RateKeys /\ store[k].metadata = NoMetadata

\* With a rate-window entry and a lead in the store, one update naming the
\* rate key was answered 400 without store access and one naming an absent
\* lead was answered 404 after one read and no write.
C18_Witness ==
    /\ StoreHas("rate/1.2.3.4")
    /\ LeadKeys # {}
    /\ \E u, v \in UpdateSlots :
         /\ up[u].req.body.id = "rate/1.2.3.4" /\ up[u].resp = 400
         /\ up[u].reads = 0 /\ up[u].writes = 0
         /\ up[v].req.body.id = AbsentKey /\ up[v].resp = 404
         /\ up[v].reads = 1 /\ up[v].writes = 0

(***************************************************************************)
(* Properties of mapLimit (SpecMapLimit).                                  *)
(***************************************************************************)
\* The outcome of fn(items[i]) in the call of slot l: the record read.
Outcome(l, i) == <<store[ls[l].keys[i]].json>>

\* Never more than max(1, limit) invocations of fn in flight.
InFlightBounded(l) ==
    Cardinality(ls[l].inflight) <= (IF ls[l].limit > 1 THEN ls[l].limit ELSE 1)

\* mapLimit has settled and no worker is left running.
Settled(l) == Hydrated(l) /\ ls[l].pc = "done"

Patchable ==
    {"status", "internal_notes", "tags", "archived", "updated_at", "contacted_at", "closed_at"}

\* C20: the step that completes a successful update writes the entry under
\* the id of the request and no other; the record keeps its fields, and
\* every field but status, internal_notes, tags, archived, updated_at,
\* contacted_at and closed_at keeps its value (id, equal to the key,
\* created_at, lead, suggested_dm, meta, booking), whatever the patch
\* carries.
C20_UpdateFrame ==
    [][\A u \in UpdateSlots :
         (up[u].pc = "set" /\ up'[u].pc = "done" /\ up'[u].resp = 200) =>
             LET id == up[u].req.body.id
             IN  /\ DOMAIN store' = DOMAIN store
                 /\ \A k \in DOMAIN store \ {id} : store'[k] = store[k]
                 /\ store'[id].json.id = id
                 /\ DOMAIN store'[id].json = DOMAIN store[id].json
                 /\ \A f \in DOMAIN store[id].json \ Patchable :
                        store'[id].json[f] = store[id].json[f]]_vars

\* A successful update whose patch carried id, created_at, lead,
\* suggested_dm, meta and booking next to a status: the stored lead is
\* closed and has the key as id, its time of creation and the name of its
\* lead payload, with the rate-window entry of its source still in the store.
C20_Witness ==
    \E u \in UpdateSlots :
        LET id == up[u].req.body.id
        IN  /\ up[u].resp = 200
            /\ up[u].req.body.patch = PatchWithRecordFields
            /\ StoreHas(id) /\ StoreHas("rate/1.2.3.4")
            /\ store[id].json.status = "closed"
            /\ store[id].json.id = id
            /\ store[id].json.created_at # PatchWithRecordFields.created_at
            /\ store[id].json.lead.name # ""

(***************************************************************************)
(* The stored rate-window records (SpecBurst).                             *)
(***************************************************************************)
\* The keys of the store that hold rate-window records.
StoredWindows == {k \in DOMAIN store : ~IsLeadKey(k)}

\* count is between 1 and MAX_REQ.
CountInRange(w) == w.count >= 1 /\ w.count <= MAX_REQ

\* The last submission lies before the end of the window.
LastBeforeWindowEnd(w) ==
    DateParse(w.last_submit_at) < DateParse(w.window_start_at) + WINDOW_MS

\* The last submission does not lie before the start of the window.
LastNotBeforeWindowStart(w) ==
    DateParse(w.window_start_at) <= DateParse(w.last_submit_at)

\* The step answers a request 429 and leaves the store as it was.
RejectionKeepsStore ==
    \A r \in CreateSlots : (cr[r].resp # 429 /\ cr'[r].resp = 429) => store' = store

\* The requests of history h finished their rate block in the order of
\* their times.
InTimeOrder(h) == \A i, j \in 1..Len(h) : i < j => h[i].t <= h[j].t

\* C21: in every reachable state, whatever the interleaving of the create
\* requests of one source, each stored window record has 1 <= count <=
\* MAX_REQ and window_start_at <= last_submit_at < window_start_at + 10
\* minutes, and a step that answers 429 leaves the store unchanged.
C21_WindowRecordInvariant ==
    /\ [](\A k \in StoredWindows :
            /\ CountInRange(store[k].json)
            /\ LastNotBeforeWindowStart(store[k].json)
            /\ LastBeforeWindowEnd(store[k].json))
    /\ [][RejectionKeepsStore]_vars

\* C21, amended: in every interleaving each stored window record has
\* 1 <= count <= MAX_REQ and last_submit_at < window_start_at + 10 minutes,
\* and a step that answers 429 leaves the store unchanged;
\* window_start_at <= last_submit_at holds as long as the requests of the
\* source finish their rate block in the order of their times (a request
\* that took its time before a later one opened a window, and reads the
\* record after that, stores a last_submit_at before window_start_at).
C21_WindowRecordInvariantInOrder ==
    /\ [](\A k \in StoredWindows :
            /\ CountInRange(store[k].json)
            /\ LastBeforeWindowEnd(store[k].json)
            /\ InTimeOrder(hist[k]) => LastNotBeforeWindowStart(store[k].json))
    /\ [][RejectionKeepsStore]_vars

\* A request of a source is answered 429 on a full window record (count =
\* MAX_REQ) written by requests that finished in the order of their times,
\* the last of them later than the start of the window.
C21_Witness ==
    \E r \in CreateSlots :
        /\ cr[r].resp = 429
        /\ StoreHas(cr[r].rk)
        /\ store[cr[r].rk].json.count = MAX_REQ
        /\ InTimeOrder(hist[cr[r].rk])
        /\ DateParse(store[cr[r].rk].json.window_start_at)
             < DateParse(store[cr[r].rk].json.last_submit_at)

(***************************************************************************)
(* Status and lifecycle stamps of the stored leads (SpecUpdate).           *)
(***************************************************************************)
\* The record carries the stamp of its status.
StampedForStatus(r) ==
    /\ r.status = "contacted" => StampSet(r.contacted_at)
    /\ r.status \in {"booked", "closed"} => StampSet(r.closed_at)

\* C22: in every reachable state, whatever the interleaving of the update
\* requests on a record, every stored lead whose status is contacted has
\* contacted_at set and every stored lead whose status is booked or closed
\* has closed_at set.
C22_StatusHasItsStamp ==
    \A k \in LeadKeys : StampedForStatus(store[k].json)

\* Two updates of one lead in flight together: one has made the stored lead
\* contacted, with contacted_at set, while the other, which read the lead
\* before that, is about to write it as booked with no contacted_at.
C22_Witness ==
    \E u, v \in UpdateSlots :
        /\ up[u].resp = 200 /\ up[v].pc = "set"
        /\ up[u].req.body.id = up[v].req.body.id
        /\ store[up[u].req.body.id].json.status = "contacted"
        /\ StampSet(store[up[u].req.body.id].json.contacted_at)
        /\ up[v].updated[1].status = "booked"
        /\ StampSet(up[v].updated[1].closed_at)
        /\ ~StampSet(up[v].updated[1].contacted_at)

=============================================================================
